---- MODULE Spec2Model ----
(***************************************************************************)
(* Model of src/addon.py: the Blender MinIO/S3 integration add-on.        *)
(*                                                                         *)
(* Strings that the code inspects character by character (object keys,    *)
(* file paths) are sequences of one-character strings, so that split("/"),*)
(* lower(), endswith() and os.path.basename() are computed, not assumed.  *)
(* A nested dict is a function from segment to sub-dict; {} is <<>>.      *)
(***************************************************************************)
EXTENDS Integers, Sequences, FiniteSets, TLC

\* ------------------------------------------------------------------ bounds
MaxKeyLen == 3
MaxKeys == 2
\* refresh threads alive at once
MaxRefresh == 2
\* messages ever appended to error_messages
MaxErrors == 2
\* connections in the preferences
MaxConns == 2
\* edits of connection properties
MaxEdits == 1

\* ------------------------------------------------------- string operations
Range(s) == {s[i] : i \in 1..Len(s)}

RECURSIVE SplitFrom(_, _, _)
SplitFrom(s, i, cur) ==
    IF i > Len(s) THEN <<cur>>
    ELSE IF s[i] = "/" THEN <<cur>> \o SplitFrom(s, i + 1, <<>>)
    ELSE SplitFrom(s, i + 1, Append(cur, s[i]))

\* str.split("/"): always at least one part; empty parts are kept
Split(s) == SplitFrom(s, 1, <<>>)

RECURSIVE Join(_)
Join(parts) ==
    IF Len(parts) = 0 THEN <<>>
    ELSE IF Len(parts) = 1 THEN parts[1]
    ELSE parts[1] \o <<"/">> \o Join(Tail(parts))

\* ----------------------------------------------------------- tree building
EmptyTree == <<>>

RECURSIVE InsertPartsOverwrite(_, _)
InsertPartsOverwrite(level, parts) ==
    IF parts = <<>> THEN level
    ELSE LET part == Head(parts)
         IN [k \in (DOMAIN level) \cup {part} |->
                IF k = part THEN InsertPartsOverwrite(EmptyTree, Tail(parts))
                ELSE level[k]]

\* the inner loop "for part in parts": walk/extend one key's segments
RECURSIVE InsertParts(_, _)
InsertParts(level, parts) ==
    IF parts = <<>> THEN level
    ELSE LET part == Head(parts)
             child == IF part \in DOMAIN level THEN level[part] ELSE EmptyTree
         IN [k \in (DOMAIN level) \cup {part} |->
                IF k = part THEN InsertParts(child, Tail(parts)) ELSE level[k]]

\* one iteration of the outer loop "for file in files"
InsertKey(tree, key) == InsertParts(tree, Split(key))

RECURSIVE build_file_tree(_)
build_file_tree(file_list) ==
    IF file_list = <<>> THEN EmptyTree
    ELSE InsertKey(build_file_tree(SubSeq(file_list, 1, Len(file_list) - 1)),
                   file_list[Len(file_list)])

\* paths (as '/'-joined strings) of the nodes of a tree, by kind
RECURSIVE NodePaths(_, _, _)
NodePaths(tree, prefix, wantLeaf) ==
    UNION {
        LET p == Append(prefix, seg)
            here == IF (tree[seg] = EmptyTree) = wantLeaf THEN {Join(p)} ELSE {}
        IN here \cup NodePaths(tree[seg], p, wantLeaf)
        : seg \in DOMAIN tree }

LeafPaths(tree) == NodePaths(tree, <<>>, TRUE)
DirPaths(tree) == NodePaths(tree, <<>>, FALSE)

ProperPrefixes(key) ==
    {Join(SubSeq(Split(key), 1, j)) : j \in 1..(Len(Split(key)) - 1)}

AllDirPrefixes(keys) == UNION {ProperPrefixes(k) : k \in keys}

\* ------------------------------------------------------ paths and suffixes
\* ASCII order of the characters that occur in keys and paths
CharOrder ==
    <<".", "/", "B", "J", "L", "O", "S", "T", "a", "b", "c", "d", "e", "g",
      "j", "l", "m", "o", "p", "s", "t", "u", "w", "x", "y", "z">>

CharRank(c) == CHOOSE i \in 1..Len(CharOrder) : CharOrder[i] = c

RECURSIVE LexLess(_, _)
LexLess(a, b) ==
    IF b = <<>> THEN FALSE
    ELSE IF a = <<>> THEN TRUE
    ELSE IF a[1] = b[1] THEN LexLess(Tail(a), Tail(b))
    ELSE CharRank(a[1]) < CharRank(b[1])

RECURSIVE SortedKeys(_)
SortedKeys(S) ==
    IF S = {} THEN <<>>
    ELSE LET least == CHOOSE k \in S : \A o \in S \ {k} : LexLess(k, o)
         IN <<least>> \o SortedKeys(S \ {least})

Take(s, n) == SubSeq(s, 1, IF Len(s) < n THEN Len(s) ELSE n)

\* s[-n:]
LastN(s, n) == IF Len(s) <= n THEN s ELSE SubSeq(s, Len(s) - n + 1, Len(s))

LowerChar(c) ==
    CASE c = "B" -> "b" [] c = "J" -> "j" [] c = "L" -> "l"
      [] c = "O" -> "o" [] c = "S" -> "s" [] c = "T" -> "t"
      [] OTHER -> c

\* str.lower()
Lower(s) == [i \in 1..Len(s) |-> LowerChar(s[i])]

\* str.endswith(suffix)
EndsWith(s, suffix) ==
    /\ Len(suffix) <= Len(s)
    /\ SubSeq(s, Len(s) - Len(suffix) + 1, Len(s)) = suffix

\* os.path.basename: what follows the last '/'
Basename(p) == LET parts == Split(p) IN parts[Len(parts)]

\* os.path.join(dir, name) for a name that does not start with '/'
PathJoin(dir, name) ==
    IF dir = <<>> THEN name
    ELSE IF dir[Len(dir)] = "/" THEN dir \o name
    ELSE dir \o <<"/">> \o name

\* tempfile.gettempdir()
TempDir == <<"/", "t", "m", "p">>

ExtStl == <<".", "s", "t", "l">>
ExtObj == <<".", "o", "b", "j">>
ExtPly == <<".", "p", "l", "y">>
ExtUsd == <<".", "u", "s", "d">>
ExtUsda == <<".", "u", "s", "d", "a">>
ExtUsdc == <<".", "u", "s", "d", "c">>
ExtGbx == <<".", "g", "b", "x">>

ImportDispatchNoLower(local_file_path) ==
    LET filepath_lower == local_file_path
    IN IF EndsWith(filepath_lower, ExtStl) THEN "wm.stl_import"
       ELSE IF EndsWith(filepath_lower, ExtObj) THEN "wm.obj_import"
       ELSE IF \/ EndsWith(filepath_lower, ExtUsd)
               \/ EndsWith(filepath_lower, ExtUsda)
               \/ EndsWith(filepath_lower, ExtUsdc) THEN "wm.usd_import"
       ELSE IF EndsWith(filepath_lower, ExtPly) THEN "wm.ply_import"
       ELSE IF EndsWith(filepath_lower, ExtGbx) THEN "gbx"
       ELSE "unsupported"

\* the if/elif chain of CloudLoadFileOperator.execute: which branch is taken
ImportDispatch(local_file_path) ==
    LET filepath_lower == Lower(local_file_path)
    IN IF EndsWith(filepath_lower, ExtStl) THEN "wm.stl_import"
       ELSE IF EndsWith(filepath_lower, ExtObj) THEN "wm.obj_import"
       ELSE IF \/ EndsWith(filepath_lower, ExtUsd)
               \/ EndsWith(filepath_lower, ExtUsda)
               \/ EndsWith(filepath_lower, ExtUsdc) THEN "wm.usd_import"
       ELSE IF EndsWith(filepath_lower, ExtPly) THEN "wm.ply_import"
       ELSE IF EndsWith(filepath_lower, ExtGbx) THEN "gbx"
       ELSE "unsupported"

\* ------------------------------------------------- connections and clients
\* EnumProperty items of CloudConnection.cloud_type
CloudTypes == {"minio", "s3"}

\* a connection added by CLOUD_OT_ConnectionAdd: the property defaults
NewConnection ==
    [cloud_type |-> "minio", endpoint_url |-> "", access_key |-> "",
     secret_key |-> "", region_name |-> "us-east-1", bucket_name |-> ""]

\* the connection register() creates when the preferences hold none
DefaultConnection ==
    [cloud_type |-> "s3", endpoint_url |-> "", access_key |-> "",
     secret_key |-> "", region_name |-> "us-east-1", bucket_name |-> ""]

\* endpoint_url.replace("http://", "").replace("https://", "")
EndpointHost(url) ==
    CASE url = "https://h1" -> "h1"
      [] url = "http://h1" -> "h1"
      [] OTHER -> url

\* endpoint_url.startswith("https://")
EndpointSecure(url) == url = "https://h1"

\* the module-level value None of s3_client / minio_client
NoClient ==
    [kind |-> "none", endpoint |-> "", access_key |-> "", secret_key |-> "",
     region |-> "", secure |-> FALSE]

MinioClientOf(conn) ==
    [kind |-> "minio", endpoint |-> EndpointHost(conn.endpoint_url),
     access_key |-> conn.access_key, secret_key |-> conn.secret_key,
     region |-> "", secure |-> EndpointSecure(conn.endpoint_url)]

S3ClientOf(conn) ==
    [kind |-> "s3", endpoint |-> "", access_key |-> conn.access_key,
     secret_key |-> conn.secret_key, region |-> conn.region_name,
     secure |-> FALSE]

\* the client initialize_cloud_client would build for a connection
ClientOf(conn) ==
    IF conn.cloud_type = "minio" THEN MinioClientOf(conn) ELSE S3ClientOf(conn)

HasConnection(conns) == Len(conns) > 0

\* get_active_connection(), for a non-empty collection
get_active_connection(conns, idx) == conns[idx + 1]

\* the global the code dereferences for a connection's cloud_type
SelectedClient(conn, s3c, mc) ==
    IF conn.cloud_type = "minio" THEN mc ELSE s3c

\* initialize_cloud_client(): constructs says whether the import and the
\* constructor succeed; the Minio constructor rejects an empty host
initialize_cloud_client(conns, idx, s3c, mc, constructs) ==
    IF ~HasConnection(conns)
    THEN [s3_client |-> s3c, minio_client |-> mc, raised |-> FALSE, built |-> FALSE]
    ELSE LET conn == get_active_connection(conns, idx)
         IN IF conn.cloud_type = "minio"
            THEN IF constructs /\ EndpointHost(conn.endpoint_url) # ""
                 THEN [s3_client |-> s3c, minio_client |-> MinioClientOf(conn),
                       raised |-> FALSE, built |-> TRUE]
                 ELSE [s3_client |-> s3c, minio_client |-> mc,
                       raised |-> TRUE, built |-> FALSE]
            ELSE IF constructs
                 THEN [s3_client |-> S3ClientOf(conn), minio_client |-> mc,
                       raised |-> FALSE, built |-> TRUE]
                 ELSE [s3_client |-> s3c, minio_client |-> mc,
                       raised |-> TRUE, built |-> FALSE]

\* ------------------------------------------------------- the object stores
\* list_objects_v2 is called once, without a continuation token, so it
\* returns one page of keys in ascending order (1000 in the service,
\* scaled down here so that a small bucket overflows the page)
S3MaxKeys == 1

\* the bucket a client's requests reach
StoreOf(client) == IF client.kind = "minio" THEN client.endpoint ELSE "aws"

StoreIds == {"aws", "h1"}

\* whether an SDK request made through client succeeds at all: None has no
\* methods, bad credentials or bucket name are rejected, the network may fail
SdkAccepts(client, conn, net_ok) ==
    /\ client # NoClient
    /\ client.access_key = "ak"
    /\ client.secret_key = "sk"
    /\ conn.bucket_name = "bkt"
    /\ net_ok

\* what is recorded about the client an SDK request went through
CallInfo(op, client, conn, fresh) ==
    [op |-> op, fresh |-> fresh, absent |-> client = NoClient,
     stale |-> client # NoClient /\ client # ClientOf(conn)]

NoCall == [op |-> "none", fresh |-> FALSE, absent |-> FALSE, stale |-> FALSE]

\* list_files_in_bucket()
list_files_in_bucket(conns, idx, s3c, mc, st, constructs, net_ok) ==
    IF ~HasConnection(conns)
    THEN [files |-> <<>>, s3_client |-> s3c, minio_client |-> mc,
          appended |-> FALSE, raised |-> FALSE, ok |-> FALSE, call |-> NoCall]
    ELSE LET conn == get_active_connection(conns, idx)
             needs == SelectedClient(conn, s3c, mc) = NoClient
             init == IF needs
                     THEN initialize_cloud_client(conns, idx, s3c, mc, constructs)
                     ELSE [s3_client |-> s3c, minio_client |-> mc,
                           raised |-> FALSE, built |-> FALSE]
             client == SelectedClient(conn, init.s3_client, init.minio_client)
             keys == SortedKeys(st[StoreOf(client)])
         IN IF init.raised
            THEN [files |-> <<>>, s3_client |-> s3c, minio_client |-> mc,
                  appended |-> FALSE, raised |-> TRUE, ok |-> FALSE,
                  call |-> NoCall]
            ELSE IF SdkAccepts(client, conn, net_ok)
            THEN [files |-> IF conn.cloud_type = "minio" THEN keys
                            ELSE Take(keys, S3MaxKeys),
                  s3_client |-> init.s3_client, minio_client |-> init.minio_client,
                  appended |-> FALSE, raised |-> FALSE, ok |-> TRUE,
                  call |-> CallInfo("list", client, conn, init.built)]
            ELSE [files |-> <<>>,
                  s3_client |-> init.s3_client, minio_client |-> init.minio_client,
                  appended |-> TRUE, raised |-> FALSE, ok |-> FALSE,
                  call |-> CallInfo("list", client, conn, init.built)]

\* upload_file(local_path, remote_name): value is the returned True/False
upload_file(conns, idx, s3c, mc, st, remote_name, net_ok) ==
    IF ~HasConnection(conns)
    THEN [value |-> FALSE, store |-> st, appended |-> FALSE, called |-> FALSE,
          call |-> NoCall]
    ELSE LET conn == get_active_connection(conns, idx)
             client == SelectedClient(conn, s3c, mc)
             sid == StoreOf(client)
         IN IF SdkAccepts(client, conn, net_ok)
            THEN [value |-> TRUE,
                  store |-> [st EXCEPT ![sid] = @ \cup {remote_name}],
                  appended |-> FALSE, called |-> TRUE,
                  call |-> CallInfo("upload", client, conn, FALSE)]
            ELSE [value |-> FALSE, store |-> st, appended |-> TRUE,
                  called |-> TRUE,
                  call |-> CallInfo("upload", client, conn, FALSE)]

download_file_reraise(conns, idx, s3c, mc, st, remote_name, local_dir, net_ok, fresh) ==
    IF ~HasConnection(conns)
    THEN [none |-> TRUE, local_path |-> <<>>, appended |-> FALSE,
          raised |-> FALSE, called |-> FALSE, existed |-> FALSE, call |-> NoCall]
    ELSE LET conn == get_active_connection(conns, idx)
             client == SelectedClient(conn, s3c, mc)
             local_path == PathJoin(local_dir, Basename(remote_name))
             existed == client # NoClient /\ remote_name \in st[StoreOf(client)]
         IN IF SdkAccepts(client, conn, net_ok) /\ existed
            THEN [none |-> FALSE, local_path |-> local_path, appended |-> FALSE,
                  raised |-> FALSE, called |-> TRUE, existed |-> existed,
                  call |-> CallInfo("download", client, conn, fresh)]
            ELSE [none |-> TRUE, local_path |-> <<>>, appended |-> TRUE,
                  raised |-> TRUE, called |-> TRUE, existed |-> existed,
                  call |-> CallInfo("download", client, conn, fresh)]

\* download_file(remote_name, local_dir): none says the sentinel None was
\* returned; raised is always FALSE because every exception is caught;
\* fresh says whether the caller has just built the client
download_file(conns, idx, s3c, mc, st, remote_name, local_dir, net_ok, fresh) ==
    IF ~HasConnection(conns)
    THEN [none |-> TRUE, local_path |-> <<>>, appended |-> FALSE,
          raised |-> FALSE, called |-> FALSE, existed |-> FALSE, call |-> NoCall]
    ELSE LET conn == get_active_connection(conns, idx)
             client == SelectedClient(conn, s3c, mc)
             local_path == PathJoin(local_dir, Basename(remote_name))
             existed == client # NoClient /\ remote_name \in st[StoreOf(client)]
         IN IF SdkAccepts(client, conn, net_ok) /\ existed
            THEN [none |-> FALSE, local_path |-> local_path, appended |-> FALSE,
                  raised |-> FALSE, called |-> TRUE, existed |-> existed,
                  call |-> CallInfo("download", client, conn, fresh)]
            ELSE [none |-> TRUE, local_path |-> <<>>, appended |-> TRUE,
                  raised |-> FALSE, called |-> TRUE, existed |-> existed,
                  call |-> CallInfo("download", client, conn, fresh)]

\* --------------------------------------------------------------- variables
VARIABLES
    \* add-on preferences
    connections, active_connection_index,
    \* module globals
    s3_client, minio_client, cached_file_list, cached_tree, error_messages,
    expanded_folders, is_refreshing,
    \* scene.cloud_file_list
    cloud_file_list,
    \* the buckets behind the SDKs
    store,
    \* refresh background threads and the host's timer queue
    threads, timers,
    \* CloudIntegrationPanel.draw in progress: its position and its slice
    draw_pc, draw_slice,
    \* observations: messages appended so far, how often each was shown,
    \* the last operator's outcome, the last SDK request's client, the keys
    \* uploaded on the current connection, the last toggle, toggled paths,
    \* connection edits made
    n_err, shown, ret, call, uploaded, last_toggle, toggled, edits,
    \* build_file_tree run on its own
    bt_files, bt_tree, bt_i

prefs_vars == <<connections, active_connection_index>>
client_vars == <<s3_client, minio_client>>
cache_vars == <<cached_file_list, cached_tree, cloud_file_list>>
draw_vars == <<draw_pc, draw_slice>>
toggle_vars == <<expanded_folders, last_toggle, toggled>>
bt_vars == <<bt_files, bt_tree, bt_i>>

vars ==
    <<connections, active_connection_index, s3_client, minio_client,
      cached_file_list, cached_tree, error_messages, expanded_folders,
      is_refreshing, cloud_file_list, store, threads, timers, draw_pc,
      draw_slice, n_err, shown, ret, call, uploaded, last_toggle,
      toggled, edits, bt_files, bt_tree, bt_i>>

\* ------------------------------------------------------------ initial state
WorkingS3 ==
    [cloud_type |-> "s3", endpoint_url |-> "", access_key |-> "ak",
     secret_key |-> "sk", region_name |-> "us-east-1", bucket_name |-> "bkt"]

WorkingMinio ==
    [cloud_type |-> "minio", endpoint_url |-> "https://h1", access_key |-> "ak",
     secret_key |-> "sk", region_name |-> "us-east-1", bucket_name |-> "bkt"]

\* preferences as the host restores them: register() guarantees one entry
InitConnectionLists ==
    {<<DefaultConnection>>, <<WorkingMinio>>}

FieldValues ==
    [cloud_type |-> CloudTypes, endpoint_url |-> {"", "https://h1"},
     access_key |-> {"", "ak"}, secret_key |-> {"", "sk"},
     region_name |-> {"us-east-1", "eu-west-1"}, bucket_name |-> {"", "bkt"}]

KeyStl == <<"a", "/", "b", ".", "s", "t", "l">>
KeyZ == <<"z">>
KeyM == <<"m">>

\* file names the Load button is tried on: every recognised extension, in
\* lower and upper case, under a folder, and unrecognised ones
LoadNames ==
    { <<"m", ".", "s", "t", "l">>, <<"m", ".", "o", "b", "j">>,
      <<"m", ".", "p", "l", "y">>, <<"m", ".", "u", "s", "d">>,
      <<"m", ".", "u", "s", "d", "a">>, <<"m", ".", "u", "s", "d", "c">>,
      <<"m", ".", "S", "T", "L">>, <<"d", "/", "m", ".", "O", "b", "j">>,
      <<"e", ".", "g", "b", "x">>, <<"s", "t", "l">>,
      <<"m", ".", "s", "t", "l", ".", "b">> }

\* file_name values the per-file buttons and scripts pass to the operators
FileNames == {KeyStl, KeyZ, KeyM}

\* file names of the per-file buttons pressed in the operator specification:
\* an object both stores hold and one neither holds
ButtonNames == {KeyStl, KeyM}

\* bpy.data.filepath: empty until the file is saved
FilePaths == {<<>>, <<"/", "w", "/", "z">>}

InitStore == [sid \in StoreIds |-> IF sid = "aws" THEN {KeyStl} ELSE {KeyStl, KeyZ}]

ThreadNew == [pc |-> "new", files |-> <<>>, tree |-> EmptyTree, i |-> 1, ok |-> FALSE]

Ret(op, result, report, called, failed, none, existed, appended, importer, import_path, local_path) ==
    [op |-> op, result |-> result, report |-> report, called |-> called,
     failed |-> failed, none |-> none, existed |-> existed,
     appended |-> appended, importer |-> importer,
     import_path |-> import_path, local_path |-> local_path]

NoRet == Ret("none", "NONE", "NONE", FALSE, FALSE, FALSE, FALSE, 0, "none", <<>>, <<>>)

InitGlobals ==
    /\ active_connection_index = 0
    /\ s3_client = NoClient
    /\ minio_client = NoClient
    /\ cached_file_list = <<>>
    /\ cached_tree = EmptyTree
    /\ error_messages = <<>>
    /\ expanded_folders = {}
    /\ is_refreshing = FALSE
    /\ cloud_file_list = <<>>
    /\ threads = [t \in 1..MaxRefresh |-> ThreadNew]
    /\ timers = <<>>
    /\ draw_pc = "idle"
    /\ draw_slice = <<>>
    /\ n_err = 0
    /\ shown = [m \in 1..MaxErrors |-> 0]
    /\ ret = NoRet
    /\ call = NoCall
    /\ uploaded = {}
    /\ last_toggle = [path |-> <<>>, before |-> {}, valid |-> FALSE]
    /\ toggled = {}
    /\ edits = 0

BuildIdle ==
    /\ bt_files = <<>>
    /\ bt_tree = EmptyTree
    /\ bt_i = 1

Init ==
    /\ connections \in InitConnectionLists
    /\ store = InitStore
    /\ InitGlobals
    /\ BuildIdle

InitRefresh ==
    /\ connections \in {<<WorkingS3>>, <<WorkingMinio, WorkingS3>>}
    /\ store = InitStore
    /\ InitGlobals
    /\ BuildIdle

\* ------------------------------------------------------------ preferences
\* CLOUD_OT_ConnectionAdd.execute
ConnectionAdd ==
    /\ draw_pc = "idle"
    /\ Len(connections) < MaxConns
    /\ connections' = Append(connections, NewConnection)
    /\ active_connection_index' = Len(connections')  - 1
    /\ uploaded' = {}
    /\ UNCHANGED <<client_vars, cache_vars, error_messages, is_refreshing, store,
                   threads, timers, draw_vars, n_err, shown, ret, call,
                   toggle_vars, edits, bt_vars>>

RemoveAt(s, i) == SubSeq(s, 1, i - 1) \o SubSeq(s, i + 1, Len(s))

\* CLOUD_OT_ConnectionRemove.execute
ConnectionRemove ==
    /\ draw_pc = "idle"
    /\ HasConnection(connections)
    /\ connections' = RemoveAt(connections, active_connection_index + 1)
    /\ active_connection_index' =
           IF active_connection_index - 1 > 0 THEN active_connection_index - 1 ELSE 0
    /\ uploaded' = {}
    /\ UNCHANGED <<client_vars, cache_vars, error_messages, is_refreshing, store,
                   threads, timers, draw_vars, n_err, shown, ret, call,
                   toggle_vars, edits, bt_vars>>

\* selecting another row of the connection list in the preferences
SelectConnection(i) ==
    /\ draw_pc = "idle"
    /\ i \in 0..(Len(connections) - 1)
    /\ i # active_connection_index
    /\ active_connection_index' = i
    /\ uploaded' = {}
    /\ UNCHANGED <<connections, client_vars, cache_vars, error_messages,
                   is_refreshing, store, threads, timers, draw_vars, n_err,
                   shown, ret, call, toggle_vars, edits, bt_vars>>

\* editing one property of the active connection in the preferences
EditConnection(field, value) ==
    /\ draw_pc = "idle"
    /\ HasConnection(connections)
    /\ edits < MaxEdits
    /\ connections[active_connection_index + 1][field] # value
    /\ connections' =
           [connections EXCEPT ![active_connection_index + 1][field] = value]
    /\ edits' = edits + 1
    /\ uploaded' = {}
    /\ UNCHANGED <<active_connection_index, client_vars, cache_vars,
                   error_messages, is_refreshing, store, threads, timers,
                   draw_vars, n_err, shown, ret, call, toggle_vars, bt_vars>>

\* ------------------------------------------------------- shared action parts
\* c more messages are appended to error_messages
AppendErrors(c) ==
    /\ n_err + c <= MaxErrors
    /\ n_err' = n_err + c
    /\ error_messages' = error_messages \o [j \in 1..c |-> n_err + j]

\* refreshes started whose scheduled callback has not run yet
InFlight == Cardinality({t \in 1..MaxRefresh : threads[t].pc # "new"}) + Len(timers)

HasFreeThread == InFlight < MaxRefresh

FreeThread == CHOOSE t \in 1..MaxRefresh :
    /\ threads[t].pc = "new"
    /\ \A u \in 1..MaxRefresh : threads[u].pc = "new" => t <= u

\* CloudUpdateFileListOperator.execute: set the flag, start the thread
StartRefresh ==
    /\ HasFreeThread
    /\ is_refreshing' = TRUE
    /\ threads' = [threads EXCEPT ![FreeThread] = [ThreadNew EXCEPT !.pc = "list"]]

\* ------------------------------------------------------- refresh operator
\* CloudUpdateFileListOperator.execute, from the Refresh button
CloudUpdateFileListOperator ==
    /\ draw_pc = "idle"
    /\ StartRefresh
    /\ ret' = Ret("refresh", "FINISHED", "NONE", FALSE, FALSE, FALSE, FALSE, 0,
                  "none", <<>>, <<>>)
    /\ UNCHANGED <<prefs_vars, client_vars, cache_vars, error_messages, store,
                   timers, draw_vars, n_err, shown, call, uploaded,
                   toggle_vars, edits, bt_vars>>

TreeVisibleWhileBuildingInPlace(cached, local) == local

\* the value of the global cached_tree after one more key has been inserted
\* into the thread's tree: tree is a local dict, the global is untouched
TreeVisibleWhileBuilding(cached, local) == cached

\* background_update: files = list_files_in_bucket()
BgList(t, constructs, net_ok) ==
    LET r == list_files_in_bucket(connections, active_connection_index,
                                  s3_client, minio_client, store,
                                  constructs, net_ok)
    IN /\ threads[t].pc = "list"
       /\ AppendErrors(IF r.appended THEN 1 ELSE 0)
       /\ s3_client' = r.s3_client
       /\ minio_client' = r.minio_client
       /\ call' = IF r.call = NoCall THEN call ELSE r.call
       /\ threads' = [threads EXCEPT ![t] =
              IF r.raised THEN ThreadNew
              ELSE [pc |-> "store_list", files |-> r.files, tree |-> EmptyTree,
                    i |-> 1, ok |-> r.ok]]
       /\ UNCHANGED <<prefs_vars, cache_vars, is_refreshing, store, timers,
                      draw_vars, shown, ret, uploaded, toggle_vars, edits,
                      bt_vars>>

\* background_update: cached_file_list = files; tree = {}
BgStoreList(t) ==
    /\ threads[t].pc = "store_list"
    /\ cached_file_list' = threads[t].files
    /\ threads' = [threads EXCEPT ![t].pc = "build"]
    /\ UNCHANGED <<prefs_vars, client_vars, cached_tree, cloud_file_list,
                   error_messages, is_refreshing, store, timers, draw_vars,
                   n_err, shown, ret, call, uploaded, toggle_vars, edits,
                   bt_vars>>

\* background_update: one iteration of "for file in files"
BgInsert(t) ==
    /\ threads[t].pc = "build"
    /\ threads[t].i <= Len(threads[t].files)
    /\ LET grown == InsertKey(threads[t].tree, threads[t].files[threads[t].i])
       IN /\ threads' = [threads EXCEPT ![t].tree = grown, ![t].i = @ + 1]
          /\ cached_tree' = TreeVisibleWhileBuilding(cached_tree, grown)
    /\ UNCHANGED <<prefs_vars, client_vars, cached_file_list, cloud_file_list,
                   error_messages, is_refreshing, store, timers, draw_vars,
                   n_err, shown, ret, call, uploaded, toggle_vars, edits,
                   bt_vars>>

\* background_update: cached_tree = tree
BgStoreTree(t) ==
    /\ threads[t].pc = "build"
    /\ threads[t].i > Len(threads[t].files)
    /\ cached_tree' = threads[t].tree
    /\ threads' = [threads EXCEPT ![t].pc = "schedule"]
    /\ UNCHANGED <<prefs_vars, client_vars, cached_file_list, cloud_file_list,
                   error_messages, is_refreshing, store, timers, draw_vars,
                   n_err, shown, ret, call, uploaded, toggle_vars, edits,
                   bt_vars>>

\* schedule_update_scene_collection(files): register the timer; the thread ends
BgSchedule(t) ==
    /\ threads[t].pc = "schedule"
    /\ timers' = Append(timers, threads[t].files)
    /\ threads' = [threads EXCEPT ![t] = ThreadNew]
    /\ UNCHANGED <<prefs_vars, client_vars, cache_vars, error_messages,
                   is_refreshing, store, draw_vars, n_err, shown, ret, call,
                   uploaded, toggle_vars, edits, bt_vars>>

\* update_scene_collection, run by the host's timer on the main thread
UpdateSceneCollection ==
    /\ draw_pc = "idle"
    /\ timers # <<>>
    /\ cloud_file_list' = Head(timers)
    /\ is_refreshing' = FALSE
    /\ timers' = Tail(timers)
    /\ UNCHANGED <<prefs_vars, client_vars, cached_file_list, cached_tree,
                   error_messages, store, threads, draw_vars, n_err, shown,
                   ret, call, uploaded, toggle_vars, edits, bt_vars>>

\* ------------------------------------------------------------- panel draw
\* error_messages[-5:]
ErrorsShown == 5

\* CloudIntegrationPanel.draw up to the slice: nothing but labels while
\* is_refreshing or when no message is pending; otherwise the error box is
\* filled from error_messages[-5:]
PanelDraw ==
    /\ draw_pc = "idle"
    /\ IF ~is_refreshing /\ error_messages # <<>>
       THEN /\ draw_slice' = LastN(error_messages, ErrorsShown)
            /\ shown' = [m \in DOMAIN shown |->
                            IF m \in Range(draw_slice') THEN shown[m] + 1
                            ELSE shown[m]]
            /\ draw_pc' = "clear"
       ELSE UNCHANGED <<draw_slice, shown, draw_pc>>
    /\ UNCHANGED <<prefs_vars, client_vars, cache_vars, error_messages,
                   is_refreshing, store, threads, timers, n_err, ret,
                   call, uploaded, toggle_vars, edits, bt_vars>>

\* CloudIntegrationPanel.draw: error_messages.clear(), then the file tree
PanelDrawClear ==
    /\ draw_pc = "clear"
    /\ error_messages' = <<>>
    /\ draw_pc' = "idle"
    /\ draw_slice' = <<>>
    /\ UNCHANGED <<prefs_vars, client_vars, cache_vars, is_refreshing, store,
                   threads, timers, n_err, shown, ret, call, uploaded,
                   toggle_vars, edits, bt_vars>>

\* ------------------------------------------------------- file operators
\* CloudUploadFileOperator.execute with an unsaved file
UploadUnsaved ==
    /\ draw_pc = "idle"
    /\ ret' = Ret("upload", "CANCELLED", "ERROR", FALSE, FALSE, FALSE, FALSE, 0,
                  "none", <<>>, <<>>)
    /\ UNCHANGED <<prefs_vars, client_vars, cache_vars, error_messages,
                   is_refreshing, store, threads, timers, draw_vars, n_err,
                   shown, call, uploaded, toggle_vars, edits, bt_vars>>

\* CloudUploadFileOperator.execute with a saved file: upload_file, then
\* bpy.ops.cloud.update_file_list(), then FINISHED whatever upload_file returned
CloudUploadFileOperator(local_file_path, net_ok) ==
    LET remote_name == Basename(local_file_path)
        up == upload_file(connections, active_connection_index, s3_client,
                          minio_client, store, remote_name, net_ok)
    IN /\ draw_pc = "idle"
       /\ local_file_path # <<>>
       /\ AppendErrors(IF up.appended THEN 1 ELSE 0)
       /\ store' = up.store
       /\ call' = IF up.called THEN up.call ELSE call
       /\ uploaded' = IF up.value THEN uploaded \cup {remote_name} ELSE uploaded
       /\ StartRefresh
       /\ ret' = Ret("upload", "FINISHED", "NONE", up.called, ~up.value,
                     ~up.value, FALSE, IF up.appended THEN 1 ELSE 0,
                     "none", <<>>, <<>>)
       /\ UNCHANGED <<prefs_vars, client_vars, cache_vars, timers, draw_vars,
                      shown, toggle_vars, edits, bt_vars>>

\* CloudDownloadFileOperator.execute
CloudDownloadFileOperator(file_name, constructs, net_ok) ==
    LET init == initialize_cloud_client(connections, active_connection_index,
                                        s3_client, minio_client, constructs)
        dl == download_file(connections, active_connection_index,
                            init.s3_client, init.minio_client, store,
                            file_name, TempDir, net_ok, init.built)
        n == (IF dl.appended THEN 1 ELSE 0) + (IF dl.raised THEN 1 ELSE 0)
    IN /\ draw_pc = "idle"
       /\ IF init.raised
          THEN /\ ret' = Ret("download", "EXCEPTION", "NONE", FALSE, TRUE, FALSE,
                             FALSE, 0, "none", <<>>, <<>>)
               /\ UNCHANGED <<client_vars, error_messages, n_err, call>>
          ELSE /\ s3_client' = init.s3_client
               /\ minio_client' = init.minio_client
               /\ AppendErrors(n)
               /\ call' = IF dl.called THEN dl.call ELSE call
               /\ ret' = IF ~dl.raised /\ ~dl.none
                         THEN Ret("download", "FINISHED", "INFO", dl.called,
                                  FALSE, FALSE, dl.existed, n, "none", <<>>,
                                  dl.local_path)
                         ELSE Ret("download", "CANCELLED", "ERROR", dl.called,
                                  TRUE, dl.none, dl.existed, n, "none", <<>>,
                                  dl.local_path)
       /\ UNCHANGED <<prefs_vars, cache_vars, is_refreshing, store, threads,
                      timers, draw_vars, shown, uploaded, toggle_vars, edits,
                      bt_vars>>

\* CloudLoadFileOperator.execute; import_ok says whether the host's import
\* operator succeeds (it raises otherwise)
CloudLoadFileOperator(file_name, constructs, net_ok, import_ok) ==
    LET init == initialize_cloud_client(connections, active_connection_index,
                                        s3_client, minio_client, constructs)
        dl == download_file(connections, active_connection_index,
                            init.s3_client, init.minio_client, store,
                            file_name, TempDir, net_ok, init.built)
        branch == ImportDispatch(dl.local_path)
        imports == branch \notin {"gbx", "unsupported"}
        caught == dl.raised \/ (~dl.none /\ imports /\ ~import_ok)
        n == (IF dl.appended THEN 1 ELSE 0) + (IF caught THEN 1 ELSE 0)
    IN /\ draw_pc = "idle"
       /\ IF init.raised
          THEN /\ ret' = Ret("load", "EXCEPTION", "NONE", FALSE, TRUE, FALSE,
                             FALSE, 0, "none", <<>>, <<>>)
               /\ UNCHANGED <<client_vars, error_messages, n_err, call>>
          ELSE /\ s3_client' = init.s3_client
               /\ minio_client' = init.minio_client
               /\ AppendErrors(n)
               /\ call' = IF dl.called THEN dl.call ELSE call
               /\ ret' =
                    IF dl.raised \/ dl.none
                    THEN Ret("load", "CANCELLED", "ERROR", dl.called, TRUE,
                             dl.none, dl.existed, n, "none", <<>>, dl.local_path)
                    ELSE IF ~imports
                    THEN Ret("load", "CANCELLED", "ERROR", dl.called, FALSE,
                             FALSE, dl.existed, n, "none", <<>>, dl.local_path)
                    ELSE IF ~import_ok
                    THEN Ret("load", "CANCELLED", "ERROR", dl.called, FALSE,
                             FALSE, dl.existed, n, branch, dl.local_path,
                             dl.local_path)
                    ELSE Ret("load", "FINISHED", "INFO", dl.called, FALSE,
                             FALSE, dl.existed, n, branch, dl.local_path,
                             dl.local_path)
       /\ UNCHANGED <<prefs_vars, cache_vars, is_refreshing, store, threads,
                      timers, draw_vars, shown, uploaded, toggle_vars, edits,
                      bt_vars>>

\* CloudDeleteFileOperator.execute without a connection
DeleteNoConnection ==
    /\ draw_pc = "idle"
    /\ ~HasConnection(connections)
    /\ ret' = Ret("delete", "CANCELLED", "ERROR", FALSE, TRUE, FALSE, FALSE, 0,
                  "none", <<>>, <<>>)
    /\ UNCHANGED <<prefs_vars, client_vars, cache_vars, error_messages,
                   is_refreshing, store, threads, timers, draw_vars, n_err,
                   shown, call, uploaded, toggle_vars, edits, bt_vars>>

\* CloudDeleteFileOperator.execute: the SDK call raises
DeleteFails(file_name, net_ok) ==
    /\ draw_pc = "idle"
    /\ HasConnection(connections)
    /\ LET conn == get_active_connection(connections, active_connection_index)
           client == SelectedClient(conn, s3_client, minio_client)
       IN /\ ~SdkAccepts(client, conn, net_ok)
          /\ call' = CallInfo("delete", client, conn, FALSE)
    /\ AppendErrors(1)
    /\ ret' = Ret("delete", "CANCELLED", "ERROR", TRUE, TRUE, FALSE, FALSE, 1,
                  "none", <<>>, <<>>)
    /\ UNCHANGED <<prefs_vars, client_vars, cache_vars, is_refreshing, store,
                   threads, timers, draw_vars, shown, uploaded, toggle_vars,
                   edits, bt_vars>>

\* CloudDeleteFileOperator.execute: the object is removed, a refresh started
CloudDeleteFileOperator(file_name) ==
    /\ draw_pc = "idle"
    /\ HasConnection(connections)
    /\ LET conn == get_active_connection(connections, active_connection_index)
           client == SelectedClient(conn, s3_client, minio_client)
       IN /\ SdkAccepts(client, conn, TRUE)
          /\ store' = [store EXCEPT ![StoreOf(client)] = @ \ {file_name}]
          /\ call' = CallInfo("delete", client, conn, FALSE)
    /\ uploaded' = uploaded \ {file_name}
    /\ StartRefresh
    /\ ret' = Ret("delete", "FINISHED", "INFO", TRUE, FALSE, FALSE, FALSE, 0,
                  "none", <<>>, <<>>)
    /\ UNCHANGED <<prefs_vars, client_vars, cache_vars, error_messages, timers,
                   draw_vars, n_err, shown, toggle_vars, edits, bt_vars>>

\* ------------------------------------------------------- folder expansion
FolderPaths == {<<"a">>, <<"a", "/", "c">>, <<"d">>, <<"e">>}

ToggleMembershipAddOnly(expanded, folder_path) == expanded \cup {folder_path}

\* the if/else of CloudToggleFolderOperator.execute
ToggleMembership(expanded, folder_path) ==
    IF folder_path \in expanded
    THEN expanded \ {folder_path}
    ELSE expanded \cup {folder_path}

\* CloudToggleFolderOperator.execute
CloudToggleFolderOperator(folder_path) ==
    /\ draw_pc = "idle"
    /\ expanded_folders' = ToggleMembership(expanded_folders, folder_path)
    /\ last_toggle' = [path |-> folder_path, before |-> expanded_folders,
                       valid |-> TRUE]
    /\ toggled' = toggled \cup {folder_path}
    /\ UNCHANGED <<prefs_vars, client_vars, cache_vars, error_messages,
                   is_refreshing, store, threads, timers, draw_vars, n_err,
                   shown, ret, call, uploaded, edits, bt_vars>>

\* ---------------------------------------------------------- specifications
\* the operators and the preferences, on the main thread
Next ==
    \/ ConnectionAdd
    \/ ConnectionRemove
    \/ \E i \in 0..(MaxConns - 1) : SelectConnection(i)
    \/ \E f \in DOMAIN FieldValues : \E v \in FieldValues[f] : EditConnection(f, v)
    \/ CloudUpdateFileListOperator
    \/ UploadUnsaved
    \/ \E fp \in FilePaths : \E n \in BOOLEAN : CloudUploadFileOperator(fp, n)
    \/ \E k \in ButtonNames : \E c \in BOOLEAN : \E n \in BOOLEAN :
           CloudDownloadFileOperator(k, c, n)
    \/ \E k \in ButtonNames : \E c \in BOOLEAN : \E n \in BOOLEAN : \E i \in BOOLEAN :
           CloudLoadFileOperator(k, c, n, i)
    \/ DeleteNoConnection
    \/ \E k \in ButtonNames : \E n \in BOOLEAN : DeleteFails(k, n)
    \/ \E k \in ButtonNames : CloudDeleteFileOperator(k)

Spec == Init /\ [][Next]_vars

\* uploads and deletes, and the refreshes that list the bucket afterwards
NextStore ==
    \/ CloudUpdateFileListOperator
    \/ \E t \in 1..MaxRefresh : \E c \in BOOLEAN : \E n \in BOOLEAN : BgList(t, c, n)
    \/ \E t \in 1..MaxRefresh : BgStoreList(t)
    \/ \E t \in 1..MaxRefresh : BgInsert(t)
    \/ \E t \in 1..MaxRefresh : BgStoreTree(t)
    \/ \E t \in 1..MaxRefresh : BgSchedule(t)
    \/ UpdateSceneCollection
    \/ \E fp \in FilePaths : \E n \in BOOLEAN : CloudUploadFileOperator(fp, n)
    \/ \E k \in FileNames : CloudDeleteFileOperator(k)

SpecStore == InitRefresh /\ [][NextStore]_vars

\* downloads and loads under varying connections
NextFetch ==
    \/ ConnectionRemove
    \/ \E f \in DOMAIN FieldValues : \E v \in FieldValues[f] : EditConnection(f, v)
    \/ \E k \in FileNames : \E c \in BOOLEAN : \E n \in BOOLEAN :
           CloudDownloadFileOperator(k, c, n)
    \/ \E k \in LoadNames : \E c \in BOOLEAN : \E n \in BOOLEAN : \E i \in BOOLEAN :
           CloudLoadFileOperator(k, c, n, i)

InitFetch ==
    /\ connections \in {<<WorkingS3>>, <<WorkingMinio>>}
    /\ store = [sid \in StoreIds |-> InitStore[sid] \cup LoadNames]
    /\ InitGlobals
    /\ BuildIdle

SpecFetch == InitFetch /\ [][NextFetch]_vars

\* refreshes: the operator, the background threads and the timer callbacks
NextRefresh ==
    \/ ConnectionRemove
    \/ CloudUpdateFileListOperator
    \/ \E t \in 1..MaxRefresh : \E c \in BOOLEAN : \E n \in BOOLEAN : BgList(t, c, n)
    \/ \E t \in 1..MaxRefresh : BgStoreList(t)
    \/ \E t \in 1..MaxRefresh : BgInsert(t)
    \/ \E t \in 1..MaxRefresh : BgStoreTree(t)
    \/ \E t \in 1..MaxRefresh : BgSchedule(t)
    \/ UpdateSceneCollection

SpecRefresh == InitRefresh /\ [][NextRefresh]_vars

\* refreshes and the panel draws that show their errors
NextPanel ==
    \/ ConnectionRemove
    \/ CloudUpdateFileListOperator
    \/ \E t \in 1..MaxRefresh : \E c \in BOOLEAN : \E n \in BOOLEAN : BgList(t, c, n)
    \/ \E t \in 1..MaxRefresh : BgStoreList(t)
    \/ \E t \in 1..MaxRefresh : BgInsert(t)
    \/ \E t \in 1..MaxRefresh : BgStoreTree(t)
    \/ \E t \in 1..MaxRefresh : BgSchedule(t)
    \/ UpdateSceneCollection
    \/ PanelDraw
    \/ PanelDrawClear

SpecPanel == InitRefresh /\ [][NextPanel]_vars

\* the folder arrows of the panel
NextToggle == \E p \in FolderPaths : CloudToggleFolderOperator(p)

InitToggle ==
    /\ connections = <<DefaultConnection>>
    /\ store = InitStore
    /\ InitGlobals
    /\ BuildIdle

SpecToggle == InitToggle /\ [][NextToggle]_vars

\* ------------------------------------------------- tree-construction inputs
TreeChars == {"a", "/"}

SeqsUpTo(S, n) == UNION {[1..m -> S] : m \in 0..n}

\* object keys are non-empty strings
TreeKeys == SeqsUpTo(TreeChars, MaxKeyLen) \ {<<>>}

ExampleKeys ==
    << <<"a", "/", "b", ".", "s", "t", "l">>,
       <<"a", "/", "c", "/", "d", ".", "o", "b", "j">>,
       <<"e", ".", "g", "b", "x">> >>

ExampleTree ==
    [k \in {<<"a">>, <<"e", ".", "g", "b", "x">>} |->
        IF k = <<"a">>
        THEN [j \in {<<"b", ".", "s", "t", "l">>, <<"c">>} |->
                IF j = <<"c">>
                THEN [d \in {<<"d", ".", "o", "b", "j">>} |-> EmptyTree]
                ELSE EmptyTree]
        ELSE EmptyTree]

InitTree ==
    /\ bt_files \in SeqsUpTo(TreeKeys, MaxKeys) \cup {ExampleKeys}
    /\ bt_tree = EmptyTree
    /\ bt_i = 1
    /\ connections = <<DefaultConnection>>
    /\ store = InitStore
    /\ InitGlobals

\* build_file_tree: one iteration of "for item in file_list"
BuildFileTreeStep ==
    /\ bt_i <= Len(bt_files)
    /\ bt_tree' = InsertKey(bt_tree, bt_files[bt_i])
    /\ bt_i' = bt_i + 1
    /\ UNCHANGED <<bt_files, prefs_vars, client_vars, cache_vars,
                   error_messages, is_refreshing, store, threads, timers,
                   draw_vars, n_err, shown, ret, call, uploaded, toggle_vars,
                   edits>>

NextTree == BuildFileTreeStep

SpecTree == InitTree /\ [][NextTree]_vars

bt_done == bt_i > Len(bt_files)

\* C1 (as stated): when the loop has finished, the leaf paths are exactly the
\* input keys and the directory paths are exactly the proper non-empty
\* segment-prefixes of the input keys.
C1_LeavesAreAllKeys ==
    bt_done =>
        /\ LeafPaths(bt_tree) = Range(bt_files)
        /\ DirPaths(bt_tree) = AllDirPrefixes(Range(bt_files))

\* C1 (amended): when the loop has finished, the leaf paths are exactly the
\* input keys that are not a proper segment-prefix of another input key, the
\* directory paths are exactly the proper non-empty segment-prefixes of the
\* input keys, the result is what build_file_tree returns, and the example
\* listing gives the example tree.
C1_TreeShape ==
    bt_done =>
        /\ LeafPaths(bt_tree) = Range(bt_files) \ AllDirPrefixes(Range(bt_files))
        /\ DirPaths(bt_tree) = AllDirPrefixes(Range(bt_files))
        /\ bt_tree = build_file_tree(bt_files)
        /\ (bt_files = ExampleKeys => bt_tree = ExampleTree)

C1_Witness ==
    /\ bt_done
    /\ Len(bt_files) = 2
    /\ LeafPaths(bt_tree) # {}
    /\ DirPaths(bt_tree) # {}
    /\ Range(bt_files) \cap AllDirPrefixes(Range(bt_files)) # {}

\* ------------------------------------------------- concurrent refreshes
Publishing(t) ==
    /\ threads[t].pc = "build"
    /\ threads[t].i > Len(threads[t].files)

Building(t) ==
    /\ threads[t].pc = "build"
    /\ threads[t].i > 1
    /\ threads[t].i <= Len(threads[t].files)

\* C2: in every step cached_tree either keeps its value or becomes the
\* complete tree of the full listing that one refresh thread obtained; it is
\* never a partially built tree nor a mixture of two listings.
C2_CachedTreeWhole ==
    [][ \/ cached_tree' = cached_tree
        \/ \E t \in 1..MaxRefresh :
              /\ Publishing(t)
              /\ cached_tree' = build_file_tree(threads[t].files) ]_vars

\* two refreshes overlap with different non-empty listings: one is half-way
\* through its loop while the tree of the other is the cached one
C2_Witness ==
    \E t \in 1..MaxRefresh : \E u \in 1..MaxRefresh :
        /\ t # u
        /\ Building(t)
        /\ threads[u].pc = "schedule"
        /\ threads[u].files # <<>>
        /\ threads[u].files # threads[t].files
        /\ cached_tree = build_file_tree(threads[u].files)
        /\ threads[t].tree # EmptyTree

\* C3: a started refresh completes: once no refresh thread is running and no
\* scheduled callback is pending, is_refreshing is False again.
C3_RefreshCompletes == InFlight = 0 => ~is_refreshing

\* C10: every message appended to error_messages is shown by exactly one
\* draw: none is shown twice, and none has left the list without having
\* been shown.
C10_ShownExactlyOnce ==
    \A m \in 1..n_err :
        /\ shown[m] <= 1
        /\ (m \notin Range(error_messages) => shown[m] = 1)

\* --------------------------------------------------------------- operators
\* C4: with an active connection, a download of a key that is not in the
\* bucket returns None, appends exactly one entry to error_messages, and the
\* Download operator returns CANCELLED.
C4_DownloadMissingKey ==
    (ret.op = "download" /\ ret.called /\ ~ret.existed) =>
        /\ ret.none
        /\ ret.appended = 1
        /\ ret.result = "CANCELLED"
        /\ ret.report = "ERROR"

C4_Witness ==
    /\ ret.op = "download"
    /\ ret.called
    /\ ~ret.existed
    /\ error_messages # <<>>
    /\ error_messages[Len(error_messages)] = n_err
    /\ HasConnection(connections)
    /\ SelectedClient(get_active_connection(connections, active_connection_index),
                      s3_client, minio_client) # NoClient

\* C5: an Upload, Download, Delete or Load whose storage operation failed
\* returns CANCELLED and reports an error to the user.
C5_FailureIsCancelled ==
    (ret.op \in {"upload", "download", "delete", "load"} /\ ret.failed) =>
        /\ ret.result = "CANCELLED"
        /\ ret.report = "ERROR"

\* C6: a listing that succeeds contains every key uploaded on this
\* connection and not deleted since.
C6_UploadThenList ==
    [][ \A t \in 1..MaxRefresh :
            (threads[t].pc = "list" /\ threads'[t].pc = "store_list" /\ threads'[t].ok)
                => uploaded \subseteq Range(threads'[t].files) ]_vars

MeshExtensions == {ExtStl, ExtObj, ExtPly, ExtUsd, ExtUsda, ExtUsdc}

ImporterFor(ext) ==
    CASE ext = ExtStl -> "wm.stl_import"
      [] ext = ExtObj -> "wm.obj_import"
      [] ext = ExtPly -> "wm.ply_import"
      [] OTHER -> "wm.usd_import"

\* C7: after a successful download the Load operator invokes an import
\* operator exactly when the lower-cased local path ends in a mesh
\* extension, then the one for that extension and with that path; otherwise
\* it invokes none, returns CANCELLED and reports an error.
C7_LoadDispatch ==
    (ret.op = "load" /\ ret.called /\ ~ret.none) =>
        LET matching == {e \in MeshExtensions : EndsWith(Lower(ret.local_path), e)}
        IN /\ (ret.importer # "none") = (matching # {})
           /\ \A e \in matching :
                 /\ ret.importer = ImporterFor(e)
                 /\ ret.import_path = ret.local_path
           /\ matching = {} => (ret.result = "CANCELLED" /\ ret.report = "ERROR")

C7_Witness ==
    /\ ret.op = "load"
    /\ ret.result = "FINISHED"
    /\ ret.importer = "wm.obj_import"
    /\ ret.import_path = <<"/", "t", "m", "p", "/", "m", ".", "O", "b", "j">>

\* C8: a toggle flips the membership of its path and of no other path;
\* toggling the path that was toggled last restores the set as it was before
\* that toggle; only paths that were toggled can be expanded.
C8_ToggleTwice ==
    [][ LET p == last_toggle'.path
        IN /\ \A q \in FolderPaths :
                 (q \in expanded_folders') =
                     (IF q = p THEN q \notin expanded_folders
                               ELSE q \in expanded_folders)
           /\ (last_toggle.valid /\ last_toggle.path = p)
                 => expanded_folders' = last_toggle.before
           /\ expanded_folders' \subseteq toggled' ]_vars

\* a path has just been toggled for the second time in a row, in a set that
\* holds another path
C8_Witness ==
    /\ last_toggle.valid
    /\ last_toggle.path \in last_toggle.before
    /\ last_toggle.path \notin expanded_folders
    /\ expanded_folders # {}

\* C9: every SDK request goes through a client that exists, was built during
\* that call, and matches the active connection.
C9_FreshClientEveryCall ==
    call.op # "none" => (call.fresh /\ ~call.absent /\ ~call.stale)

\* C11: whenever no refresh thread is running and no scheduled callback is
\* pending, cached_tree is the tree built from cached_file_list and the
\* scene's cloud_file_list holds exactly the keys of cached_file_list.
C11_RefreshResultsAgree ==
    InFlight = 0 =>
        /\ cached_tree = build_file_tree(cached_file_list)
        /\ cloud_file_list = cached_file_list
====
